---- MODULE Spec2Model ----
(***************************************************************************)
(* git_ext: workflow commands over stacks of dependent git branches.       *)
(*                                                                         *)
(* The repository as the tool sees it through run_git:                     *)
(*   - a commit is the sequence of the patches of its history, oldest      *)
(*     first; <<>> stands for "no such ref";                               *)
(*   - cherry-picking commit c onto base x yields Append(x, Last(c));      *)
(*   - every run_git call is one entry of log, with the outcome the        *)
(*     caller sees.                                                        *)
(* One behaviour is one invocation of the tool (main runs one subcommand). *)
(*                                                                         *)
(*   Spec       the commands that move branches: fix-up, up, rec-fix-up,   *)
(*              commit-br, rebase-onto-latest, reset-hard-origin           *)
(*   SpecTree   show-tree: graph construction, depth and rendering         *)
(*   SpecPurge  purge                                                      *)
(*   SpecParse  parse_branch_entry on one line of git branch -vv           *)
(*                                                                         *)
(* In Spec every tracked upstream is a local branch; the verbose flag,     *)
(* which only prints, is left out; SpecTree starts from descriptors of     *)
(* name and upstream, since sha, message and status reach the table cells  *)
(* unchanged.                                                              *)
(***************************************************************************)
EXTENDS Naturals, Integers, Sequences, FiniteSets, TLC

\* ------------------------------------------------------------ repository
Names == {"base", "mid", "leaf", "topic"}
LocalBranches == {"base", "mid", "leaf"}
NoUpstream == "none"
NoCommit == << >>

\* Bound on the number of branches the climb of rec_fix_up may collect.
MaxClimb == 3

\* The histories the local branches may start with: a stack base <- mid <- leaf
\* of one commit each, base possibly moved on by a commit, mid possibly holding
\* a second commit that leaf may or may not be built on.
InitTips ==
    { t \in [Names -> {<<"r">>, <<"r", "b">>, <<"r", "m">>, <<"r", "m", "n">>,
                       <<"r", "m", "l">>, <<"r", "m", "n", "l">>, NoCommit}] :
        /\ t["base"] \in {<<"r">>, <<"r", "b">>}
        /\ t["mid"] \in {<<"r", "m">>, <<"r", "m", "n">>}
        /\ t["leaf"] \in {<<"r", "m", "l">>, <<"r", "m", "n", "l">>}
        /\ t["topic"] = NoCommit }

\* The tracking configurations: git never sets a branch as its own upstream.
InitUpstreams ==
    { u \in [Names -> LocalBranches \cup {NoUpstream}] :
        /\ u["topic"] = NoUpstream
        /\ \A b \in LocalBranches : u[b] # b }

VARIABLES
    head,          \* the checked-out branch (HEAD)
    tip,           \* branch name -> commit (NoCommit: no such branch)
    upstream,      \* branch name -> tracked upstream (NoUpstream: none)
    dirty,         \* the working tree has uncommitted changes
    origin,        \* branch name -> commit of origin/<name> (NoCommit: none)
    pc,            \* position in the running subcommand
    op,            \* the subcommand main dispatched to
    terminal,      \* rec_fix_up: terminal
    push,          \* rec_fix_up: push
    branch_cache,  \* rec_fix_up: branch_cache
    idx,           \* rec_fix_up: position of the for loop in branch_cache
    fu_upstream,   \* fix_upstream: upstream
    commit,        \* fix_upstream: commit
    curr,          \* curr_branch / parent_branch / curr
    curr_upstream, \* rec_fix_up: curr_upstream
    arg,           \* commit_branch: branch_name, rebase_onto_latest: branch
    log,           \* the run_git calls issued so far
    pre,           \* tip, upstream and head when main started
    listing,       \* print_branch_tree: the parsed lines of git branch -vv
    tpc,           \* print_branch_tree: position
    branch_downstream_map,  \* print_branch_tree: branch_downstream_map
    branches,      \* print_branch_tree: branches
    branches_by_name,       \* print_branch_tree: branches_by_name
    root_branches, \* print_branch_tree: root_branches
    ridx,          \* print_branch_tree: position of the loop over root_branches
    all_rows,      \* print_branch_tree: all_rows
    stale_refs,    \* the branches of origin/ that are gone from the remote
    local_set,     \* the local branches purge may name
    prefix,        \* purge: prefix
    no_confirm,    \* purge: no_confirm
    purge_list,    \* purge: branches
    pidx,          \* purge: position of the for loop in branches
    answer,        \* purge: what Confirm::interact returned
    line,          \* parse_branch_entry: branch_entry
    built,         \* the fields git branch -vv printed the line from, if any
    parts,         \* parse_branch_entry: parts
    descriptor,    \* parse_branch_entry: descriptor
    ppc            \* parse_branch_entry: position

repoVars == <<head, tip, upstream, dirty, origin>>
localVars == <<op, terminal, push, branch_cache, idx, fu_upstream, commit, curr,
               curr_upstream, arg>>
gitVars == <<head, tip, upstream, dirty, origin, pc, op, terminal, push,
             branch_cache, idx, fu_upstream, commit, curr, curr_upstream, arg,
             log, pre>>

parseVars == <<line, built, parts, descriptor, ppc>>

treeVars == <<listing, tpc, branch_downstream_map, branches, branches_by_name,
              root_branches, ridx, all_rows, parseVars>>

purgeVars == <<stale_refs, local_set, prefix, no_confirm, purge_list, pidx, answer>>

Range(s) == {s[i] : i \in 1..Len(s)}

\* One run_git call: the git arguments, whether the caller got Ok, and the
\* branch that was checked out and the state of the tree when it was issued.
Entry(c, a, ok) == [cmd |-> c, arg |-> a, ok |-> ok, on |-> head, dirty |-> dirty]

Next_pcIgnoringErr(ok, then) == then

\* run_git: a nonzero exit is an Err, which every caller propagates with `?`.
Next_pc(ok, then) == IF ok THEN then ELSE "failed"

\* handle_submodules: submodule init, then submodule update --recursive;
\* either may fail, and the second is not run when the first failed.
SubmoduleRuns ==
    { << Entry("submodule init", "", FALSE) >>,
      << Entry("submodule init", "", TRUE), Entry("submodule update", "", FALSE) >>,
      << Entry("submodule init", "", TRUE), Entry("submodule update", "", TRUE) >> }

RunOk(run) == run[Len(run)].ok

\* checkout: git checkout <branch>, then handle_submodules. git refuses the
\* checkout of a ref that does not exist, and may refuse it on a dirty tree.
CheckoutRuns(b) ==
    { << Entry("checkout", b, FALSE) >> : x \in {y \in {1} : tip[b] = NoCommit \/ dirty} }
    \cup { << Entry("checkout", b, TRUE) >> \o r : r \in {y \in SubmoduleRuns : tip[b] # NoCommit} }

CheckoutLeavesHead(run) == FALSE

\* git checkout, the first call of the run, moved HEAD.
CheckedOut(run) == run[1].ok

IsPrefix(a, b) == Len(a) <= Len(b) /\ \A i \in 1..Len(a) : a[i] = b[i]

FrontUnmoved(s) == s

\* HEAD~1: the commit below the tip.
Front(s) == SubSeq(s, 1, Len(s) - 1)

IsCleanUnchecked == TRUE

\* ensure_clean: Ok exactly when git status reports a clean tree.
IsClean == ~dirty

SetUpstreamToEvenSelf(b, up) == [upstream EXCEPT ![b] = up]

SetUpstreamToNothing(b, up) == upstream

\* git branch --set-upstream-to <up> on the current branch: git leaves the
\* configuration alone (with a warning) when asked to track the branch itself.
SetUpstreamTo(b, up) == IF up = b THEN upstream ELSE [upstream EXCEPT ![b] = up]

ResetHardEveryBranch(b, c) == [n \in Names |-> IF tip[n] = NoCommit THEN NoCommit ELSE c]

\* git reset --hard <commit>: the current branch points at the commit.
ResetHard(b, c) == [tip EXCEPT ![b] = c]

CherryPickWholeHistory(base, c) == c

\* git cherry-pick <commit> on top of base: base plus the patch of that commit.
CherryPick(base, c) == Append(base, c[Len(c)])

CacheInsertBack(cache, b) == Append(cache, b)

\* branch_cache.insert(0, curr_branch)
CacheInsert(cache, b) == <<b>> \o cache

\* ------------------------------------------------------------------ main
InitGit ==
    /\ head \in LocalBranches
    /\ tip \in InitTips
    /\ upstream \in InitUpstreams
    /\ dirty \in BOOLEAN
    /\ origin = [n \in Names |-> NoCommit]
    /\ pc = "main"
    /\ op = "none"
    /\ terminal = "none"
    /\ push = FALSE
    /\ branch_cache = << >>
    /\ idx = 1
    /\ fu_upstream = "none"
    /\ commit = NoCommit
    /\ curr = "none"
    /\ curr_upstream = "none"
    /\ arg = "none"
    /\ log = << >>
    /\ pre = [tip |-> tip, upstream |-> upstream, head |-> head]

\* FixUp {} => fix_upstream(&get_upstream(verbose).unwrap(), verbose)
MainFixUp ==
    /\ pc = "main"
    /\ op' = "fix_up"
    /\ log' = Append(log, Entry("rev-parse @{u}", "", upstream[head] # NoUpstream))
    /\ fu_upstream' = upstream[head]
    /\ pc' = Next_pc(upstream[head] # NoUpstream, "fu_lasthash")
    /\ UNCHANGED <<treeVars, purgeVars, repoVars, terminal, push, branch_cache, idx, commit, curr,
                   curr_upstream, arg, pre>>

\* Up { branch } => fix_upstream(&branch, verbose)
MainUp ==
    /\ pc = "main"
    /\ \E branch \in Names : fu_upstream' = branch
    /\ op' = "up"
    /\ pc' = "fu_lasthash"
    /\ UNCHANGED <<treeVars, purgeVars, repoVars, terminal, push, branch_cache, idx, commit, curr,
                   curr_upstream, arg, log, pre>>

\* RecFixUp { terminal, push } => rec_fix_up(&terminal, push, verbose, &mut vec![])
MainRecFixUp ==
    /\ pc = "main"
    /\ \E t \in Names : terminal' = t
    /\ \E p \in BOOLEAN : push' = p
    /\ branch_cache' = << >>
    /\ op' = "rec"
    /\ pc' = "rec_entry"
    /\ UNCHANGED <<treeVars, purgeVars, repoVars, idx, fu_upstream, commit, curr, curr_upstream, arg,
                   log, pre>>

\* CommitBr { name } => commit_branch(&name, verbose)
MainCommitBr ==
    /\ pc = "main"
    /\ \E name \in Names : arg' = name
    /\ op' = "commit_br"
    /\ pc' = "cb_branch"
    /\ UNCHANGED <<treeVars, purgeVars, repoVars, terminal, push, branch_cache, idx, fu_upstream,
                   commit, curr, curr_upstream, log, pre>>

\* RebaseOntoLatest { branch } => rebase_onto_latest(&branch.unwrap_or("main"), verbose)
MainRebaseOntoLatest ==
    /\ pc = "main"
    /\ \E branch \in Names : arg' = branch
    /\ op' = "rol"
    /\ pc' = "rl_curr"
    /\ UNCHANGED <<treeVars, purgeVars, repoVars, terminal, push, branch_cache, idx, fu_upstream,
                   commit, curr, curr_upstream, log, pre>>

\* ResetHardOrgin {} => reset_hard_origin(verbose)
MainResetHardOrigin ==
    /\ pc = "main"
    /\ op' = "rho"
    /\ pc' = "rh_curr"
    /\ UNCHANGED <<treeVars, purgeVars, repoVars, terminal, push, branch_cache, idx, fu_upstream,
                   commit, curr, curr_upstream, arg, log, pre>>

\* --------------------------------------------------------- fix_upstream
\* let commit = lasthash(verbose)?;
FuLasthash ==
    /\ pc = "fu_lasthash"
    /\ commit' = tip[head]
    /\ log' = Append(log, Entry("log -n 1", "", TRUE))
    /\ pc' = "fu_set_upstream"
    /\ UNCHANGED <<treeVars, purgeVars, repoVars, op, terminal, push, branch_cache, idx, fu_upstream,
                   curr, curr_upstream, arg, pre>>

\* run_git(vec!["branch", "--set-upstream-to", upstream], true)?;
\* git fails when the requested upstream does not exist.
FuSetUpstream ==
    /\ pc = "fu_set_upstream"
    /\ LET ok == fu_upstream \in Names /\ tip[fu_upstream] # NoCommit IN
        /\ log' = Append(log, Entry("branch --set-upstream-to", fu_upstream, ok))
        /\ upstream' = IF ok THEN SetUpstreamTo(head, fu_upstream) ELSE upstream
        /\ pc' = Next_pc(ok, "fu_ensure_clean")
    /\ UNCHANGED <<treeVars, purgeVars, head, tip, dirty, origin, localVars, pre>>

\* ensure_clean()?;
FuEnsureClean ==
    /\ pc = "fu_ensure_clean"
    /\ log' = Append(log, Entry("status", "", IsClean))
    /\ pc' = Next_pc(IsClean, "fu_reset")
    /\ UNCHANGED <<treeVars, purgeVars, repoVars, localVars, pre>>

\* run_git(vec!["reset", "--hard", upstream, "--"], true)?;
FuReset ==
    /\ pc = "fu_reset"
    /\ log' = Append(log, Entry("reset --hard", fu_upstream, TRUE))
    /\ tip' = ResetHard(head, tip[fu_upstream])
    /\ dirty' = FALSE
    /\ pc' = "fu_submodules"
    /\ UNCHANGED <<treeVars, purgeVars, head, upstream, origin, localVars, pre>>

\* handle_submodules(true)?;  (the one after the reset)
FuSubmodules ==
    /\ pc = "fu_submodules"
    /\ \E run \in SubmoduleRuns :
        /\ log' = log \o run
        /\ pc' = Next_pc(RunOk(run), "fu_cherry_pick")
    /\ UNCHANGED <<treeVars, purgeVars, repoVars, localVars, pre>>

\* run_git(vec!["cherry-pick", commit.as_str()], true)?;
\* git fails when the patch is already in the history (the pick is empty) and
\* on a conflict, which it leaves in the working tree.
FuCherryPick ==
    /\ pc = "fu_cherry_pick"
    /\ \E ok \in {b \in BOOLEAN : b => commit[Len(commit)] \notin Range(tip[head])} :
        /\ log' = Append(log, Entry("cherry-pick", "", ok))
        /\ tip' = IF ok THEN [tip EXCEPT ![head] = CherryPick(tip[head], commit)] ELSE tip
        /\ dirty' = IF ok THEN dirty ELSE (commit[Len(commit)] \notin Range(tip[head]))
        /\ pc' = Next_pc(ok, "fu_submodules_end")
    /\ UNCHANGED <<treeVars, purgeVars, head, upstream, origin, localVars, pre>>

AfterFixUpstreamAlwaysPush == IF op = "rec" THEN "rec_push" ELSE "done"

\* Where control goes when fix_upstream returns Ok(()).
AfterFixUpstream == IF op = "rec" THEN (IF push THEN "rec_push" ELSE "rec_loop") ELSE "done"

\* handle_submodules(true)?; Ok(())  (the one after the cherry-pick)
FuSubmodulesEnd ==
    /\ pc = "fu_submodules_end"
    /\ \E run \in SubmoduleRuns :
        /\ log' = log \o run
        /\ pc' = Next_pc(RunOk(run), AfterFixUpstream)
    /\ UNCHANGED <<treeVars, purgeVars, repoVars, localVars, pre>>

AtTerminalOrRoot(curr_branch) ==
    curr_branch = terminal \/ upstream[curr_branch] = NoUpstream

\* if curr_branch == terminal {
AtTerminal(curr_branch) == curr_branch = terminal

\* ----------------------------------------------------------- rec_fix_up
\* let curr_branch = get_curr_branch(verbose)?; if curr_branch == terminal {
RecEntry ==
    /\ pc = "rec_entry"
    /\ curr' = head
    /\ log' = Append(log, Entry("rev-parse HEAD", "", TRUE))
    /\ pc' = IF AtTerminal(head) THEN "rec_loop" ELSE "rec_upstream"
    /\ idx' = 1
    /\ UNCHANGED <<treeVars, purgeVars, repoVars, op, terminal, push, branch_cache, fu_upstream, commit,
                   curr_upstream, arg, pre>>

\* let curr_upstream = get_upstream(verbose)?;
RecUpstream ==
    /\ pc = "rec_upstream"
    /\ log' = Append(log, Entry("rev-parse @{u}", "", upstream[head] # NoUpstream))
    /\ curr_upstream' = upstream[head]
    /\ pc' = Next_pc(upstream[head] # NoUpstream, "rec_checkout")
    /\ UNCHANGED <<treeVars, purgeVars, repoVars, op, terminal, push, branch_cache, idx, fu_upstream,
                   commit, curr, arg, pre>>

\* checkout(&curr_upstream, false)?; branch_cache.insert(0, curr_branch);
\* rec_fix_up(terminal, push, verbose, branch_cache)
RecClimb ==
    /\ pc = "rec_checkout"
    /\ Len(branch_cache) < MaxClimb
    /\ \E run \in CheckoutRuns(curr_upstream) :
        /\ log' = log \o run
        /\ head' = IF CheckedOut(run) THEN curr_upstream ELSE head
        /\ branch_cache' = IF RunOk(run) THEN CacheInsert(branch_cache, curr)
                           ELSE branch_cache
        /\ pc' = Next_pc(RunOk(run), "rec_entry")
    /\ UNCHANGED <<treeVars, purgeVars, tip, upstream, dirty, origin, op, terminal, push, idx,
                   fu_upstream, commit, curr, curr_upstream, arg, pre>>

\* for branch in branch_cache { checkout(branch, true)?;
RecLoopNext ==
    /\ pc = "rec_loop"
    /\ idx <= Len(branch_cache)
    /\ \E run \in CheckoutRuns(branch_cache[idx]) :
        /\ log' = log \o run
        /\ head' = IF CheckedOut(run) THEN branch_cache[idx] ELSE head
        /\ pc' = Next_pc(RunOk(run), "rec_loop_upstream")
    /\ idx' = idx + 1
    /\ UNCHANGED <<treeVars, purgeVars, tip, upstream, dirty, origin, op, terminal, push, branch_cache,
                   fu_upstream, commit, curr, curr_upstream, arg, pre>>

\* fix_upstream(&get_upstream(false)?, verbose)?;
RecLoopUpstream ==
    /\ pc = "rec_loop_upstream"
    /\ log' = Append(log, Entry("rev-parse @{u}", "", upstream[head] # NoUpstream))
    /\ fu_upstream' = upstream[head]
    /\ pc' = Next_pc(upstream[head] # NoUpstream, "fu_lasthash")
    /\ UNCHANGED <<treeVars, purgeVars, repoVars, op, terminal, push, branch_cache, idx, commit, curr,
                   curr_upstream, arg, pre>>

\* if push { push_origin(false)?; }
\* push_origin: get_curr_branch, then git push -f origin <branch>.
RecPush ==
    /\ pc = "rec_push"
    /\ \E ok \in BOOLEAN :
        /\ log' = log \o << Entry("rev-parse HEAD", "", TRUE),
                            Entry("push -f origin", head, ok) >>
        /\ origin' = IF ok THEN [origin EXCEPT ![head] = tip[head]] ELSE origin
        /\ pc' = Next_pc(ok, "rec_loop")
    /\ UNCHANGED <<treeVars, purgeVars, head, tip, upstream, dirty, localVars, pre>>

\* } return Ok(());   (the for loop is exhausted)
RecLoopEnd ==
    /\ pc = "rec_loop"
    /\ idx > Len(branch_cache)
    /\ pc' = "done"
    /\ UNCHANGED <<treeVars, purgeVars, repoVars, localVars, log, pre>>

\* -------------------------------------------------------- commit_branch
\* run_git(vec!["branch", branch_name], true)?;  git fails when the name is taken.
CbBranch ==
    /\ pc = "cb_branch"
    /\ LET ok == tip[arg] = NoCommit IN
        /\ log' = Append(log, Entry("branch", arg, ok))
        /\ tip' = IF ok THEN [tip EXCEPT ![arg] = tip[head]] ELSE tip
        /\ pc' = Next_pc(ok, "cb_ensure_clean")
    /\ UNCHANGED <<treeVars, purgeVars, head, upstream, dirty, origin, localVars, pre>>

\* ensure_clean()?;
CbEnsureClean ==
    /\ pc = "cb_ensure_clean"
    /\ log' = Append(log, Entry("status", "", IsClean))
    /\ pc' = Next_pc(IsClean, "cb_reset")
    /\ UNCHANGED <<treeVars, purgeVars, repoVars, localVars, pre>>

\* run_git(vec!["reset", "--hard", "HEAD~1"], true)?;  git fails on a root commit.
CbReset ==
    /\ pc = "cb_reset"
    /\ LET ok == Len(tip[head]) > 1 IN
        /\ log' = Append(log, Entry("reset --hard", "HEAD~1", ok))
        /\ tip' = IF ok THEN ResetHard(head, Front(tip[head])) ELSE tip
        /\ dirty' = IF ok THEN FALSE ELSE dirty
        /\ pc' = Next_pc(ok, "cb_checkout")
    /\ UNCHANGED <<treeVars, purgeVars, head, upstream, origin, localVars, pre>>

\* let parent_branch = get_curr_branch(verbose)?;
\* run_git(vec!["checkout", branch_name], true)?;
CbCheckout ==
    /\ pc = "cb_checkout"
    /\ curr' = head
    /\ \E ok \in {b \in BOOLEAN : b \/ dirty} :
        /\ log' = log \o << Entry("rev-parse HEAD", "", TRUE), Entry("checkout", arg, ok) >>
        /\ head' = IF ok THEN arg ELSE head
        /\ pc' = Next_pc(ok, "cb_set_upstream")
    /\ UNCHANGED <<treeVars, purgeVars, tip, upstream, dirty, origin, op, terminal, push, branch_cache,
                   idx, fu_upstream, commit, curr_upstream, arg, pre>>

\* run_git(vec!["branch", "--set-upstream-to", &parent_branch], true)?;
CbSetUpstream ==
    /\ pc = "cb_set_upstream"
    /\ log' = Append(log, Entry("branch --set-upstream-to", curr, TRUE))
    /\ upstream' = SetUpstreamTo(head, curr)
    /\ pc' = "cb_submodules"
    /\ UNCHANGED <<treeVars, purgeVars, head, tip, dirty, origin, localVars, pre>>

\* handle_submodules(true)
CbSubmodules ==
    /\ pc = "cb_submodules"
    /\ \E run \in SubmoduleRuns :
        /\ log' = log \o run
        /\ pc' = Next_pc(RunOk(run), "done")
    /\ UNCHANGED <<treeVars, purgeVars, repoVars, localVars, pre>>

\* ---------------------------------------------------- reset_hard_origin
\* What origin may hold for a branch when it is fetched.
Fetched(b) == {NoCommit, tip[b], Append(tip[b], "o"), <<"r", "o">>}

\* let curr = get_curr_branch(verbose)?; ensure_clean()?;
RhEnsureClean ==
    /\ pc = "rh_curr"
    /\ curr' = head
    /\ log' = log \o << Entry("rev-parse HEAD", "", TRUE), Entry("status", "", IsClean) >>
    /\ pc' = Next_pc(IsClean, "rh_fetch")
    /\ UNCHANGED <<treeVars, purgeVars, repoVars, op, terminal, push, branch_cache, idx, fu_upstream,
                   commit, curr_upstream, arg, pre>>

\* run_git(vec!["fetch", "origin"], true)?;
RhFetch ==
    /\ pc = "rh_fetch"
    /\ \E ok \in BOOLEAN :
        /\ log' = Append(log, Entry("fetch origin", "", ok))
        /\ \E c \in Fetched(curr) : origin' = IF ok THEN [origin EXCEPT ![curr] = c]
                                                ELSE origin
        /\ pc' = Next_pc(ok, "rh_reset")
    /\ UNCHANGED <<treeVars, purgeVars, head, tip, upstream, dirty, localVars, pre>>

\* run_git(vec!["reset", "--hard", &format!("origin/{curr}")], true)?;
\* git fails when origin has no such branch.
RhReset ==
    /\ pc = "rh_reset"
    /\ LET ok == origin[curr] # NoCommit IN
        /\ log' = Append(log, Entry("reset --hard", "origin/" \o curr, ok))
        /\ tip' = IF ok THEN ResetHard(head, origin[curr]) ELSE tip
        /\ dirty' = IF ok THEN FALSE ELSE dirty
        /\ pc' = Next_pc(ok, "done")
    /\ UNCHANGED <<treeVars, purgeVars, head, upstream, origin, localVars, pre>>

\* --------------------------------------------------- rebase_onto_latest
\* let curr = get_curr_branch(false)?; run_git(vec!["checkout", branch], true)?;
RlCheckout ==
    /\ pc = "rl_curr"
    /\ curr' = head
    /\ \E ok \in {b \in BOOLEAN : (b => tip[arg] # NoCommit) /\ (~b => tip[arg] = NoCommit \/ dirty)} :
        /\ log' = log \o << Entry("rev-parse HEAD", "", TRUE), Entry("checkout", arg, ok) >>
        /\ head' = IF ok THEN arg ELSE head
        /\ pc' = Next_pc(ok, "rl_pull")
    /\ UNCHANGED <<treeVars, purgeVars, tip, upstream, dirty, origin, op, terminal, push, branch_cache,
                   idx, fu_upstream, commit, curr_upstream, arg, pre>>

\* run_git(vec!["pull", "--ff-only"], true)?;
\* The pull needs a tracked upstream and succeeds only when the branch can be
\* fast-forwarded to it (or already contains it).
RlPull ==
    /\ pc = "rl_pull"
    /\ LET up == upstream[head] IN
       \E ok \in {b \in BOOLEAN : b => /\ up # NoUpstream
                                      /\ \/ IsPrefix(tip[head], tip[up])
                                         \/ IsPrefix(tip[up], tip[head])} :
        /\ log' = Append(log, Entry("pull --ff-only", "", ok))
        /\ tip' = IF ok /\ IsPrefix(tip[head], tip[up]) THEN [tip EXCEPT ![head] = tip[up]]
                  ELSE tip
        /\ pc' = Next_pc(ok, "rl_back")
    /\ UNCHANGED <<treeVars, purgeVars, head, upstream, dirty, origin, localVars, pre>>

\* run_git(vec!["checkout", &curr], true)?; fix_upstream(branch, verbose)
RlCheckoutBack ==
    /\ pc = "rl_back"
    /\ \E ok \in {b \in BOOLEAN : b \/ dirty} :
        /\ log' = Append(log, Entry("checkout", curr, ok))
        /\ head' = IF ok THEN curr ELSE head
        /\ pc' = Next_pc(ok, "fu_lasthash")
    /\ fu_upstream' = arg
    /\ UNCHANGED <<treeVars, purgeVars, tip, upstream, dirty, origin, op, terminal, push, branch_cache,
                   idx, commit, curr, curr_upstream, arg, pre>>

\* ---------------------------------------------------- print_branch_tree
\* The local branch names of a listing, in the byte order sort_by_key uses.
SortedNames == << "feat-a", "feat-b", "main", "origin-fix" >>
TreeNames == Range(SortedNames)

\* What a branch may track besides a listed branch: a remote-tracking ref and
\* a local branch that is gone.
UpstreamRefs == TreeNames \cup {"origin/main", "gone"}

\* Bound on the number of lines of a listing.
MaxListing == 3

\* BranchDescriptor, reduced to the fields the graph is built from.
Descriptors ==
    { d \in [name : TreeNames, upstream : UpstreamRefs \cup {NoUpstream}] :
        d.upstream # d.name }

\* git branch -vv lists every local branch once.
Listings ==
    { l \in UNION { [1..n -> Descriptors] : n \in 0..MaxListing } :
        \A i, j \in 1..Len(l) : l[i].name = l[j].name => i = j }

\* up.contains("origin")
ContainsOrigin(up) == up \in {"origin/main", "origin-fix"}

Rank(n) == CHOOSE i \in 1..Len(SortedNames) : SortedNames[i] = n

AddDownReplacing(map, up, name) == (up :> << name >>) @@ map

AddDownInFront(map, up, name) ==
    IF up \in DOMAIN map THEN [map EXCEPT ![up] = << name >> \o @]
    ELSE (up :> << name >>) @@ map

\* if !map.contains_key(upstream) { map.insert(upstream, vec![]) }
\* map.get_mut(upstream)?.push(name)
AddDown(map, up, name) ==
    IF up \in DOMAIN map THEN [map EXCEPT ![up] = Append(@, name)]
    ELSE (up :> << name >>) @@ map

\* for branch in &branches { if let Some(upstream) = &branch.desc.upstream { ... } }
RECURSIVE DownstreamFold(_, _)
DownstreamFold(descs, map) ==
    IF descs = << >> THEN map
    ELSE DownstreamFold(Tail(descs),
            IF Head(descs).upstream = NoUpstream THEN map
            ELSE AddDown(map, Head(descs).upstream, Head(descs).name))

DownstreamMap(descs) == DownstreamFold(descs, << >>)

\* branches.push(BranchT { desc, downstream: vec![] }) and then
\* for branch in branches.iter_mut() { branch.downstream = map[name].to_vec() }
Attach(descs, map) ==
    [ i \in 1..Len(descs) |->
        [ desc |-> descs[i],
          downstream |-> IF descs[i].name \in DOMAIN map THEN map[descs[i].name]
                         ELSE << >> ] ]

\* for branch in &branches { branches_by_name.insert(name, branch.clone()) }
ByName(brs) ==
    [ n \in {brs[i].desc.name : i \in 1..Len(brs)} |->
        brs[CHOOSE i \in 1..Len(brs) :
                /\ brs[i].desc.name = n
                /\ \A j \in 1..Len(brs) : brs[j].desc.name = n => j <= i] ]

IsRootOnlyWithoutUpstream(by_name, br) == br.desc.upstream = NoUpstream

\* !b.has_upstream() || !branches_by_name.contains_key(b.desc.upstream)
IsRoot(by_name, br) ==
    \/ br.desc.upstream = NoUpstream
    \/ br.desc.upstream \notin DOMAIN by_name

SortByNameKeepingListingOrder(brs) == brs

\* root_branches.sort_by_key(|br| br.desc.name.clone()): a stable sort.
RECURSIVE SortByName(_)
SortByName(brs) ==
    IF brs = << >> THEN << >>
    ELSE LET rest == SortByName(SubSeq(brs, 1, Len(brs) - 1))
             last == brs[Len(brs)]
             IsBefore(b) == Rank(b.desc.name) <= Rank(last.desc.name)
             IsAfter(b) == ~IsBefore(b)
         IN  SelectSeq(rest, IsBefore) \o << last >> \o SelectSeq(rest, IsAfter)

RootBranches(brs, by_name) ==
    LET Keep(b) == IsRoot(by_name, b) IN SortByName(SelectSeq(brs, Keep))

BranchDepthZeroAtDangling(by_name, name) ==
    LET RECURSIVE D(_)
        D(n) == IF n \in DOMAIN by_name
                   /\ by_name[n].desc.upstream # NoUpstream
                   /\ by_name[n].desc.upstream \in DOMAIN by_name
                THEN 1 + D(by_name[n].desc.upstream)
                ELSE 0
    IN  D(name)

\* branch_depth
RECURSIVE BranchDepth(_, _)
BranchDepth(by_name, name) ==
    IF name \in DOMAIN by_name
    THEN IF by_name[name].desc.upstream # NoUpstream
         THEN 1 + BranchDepth(by_name, by_name[name].desc.upstream)
         ELSE 0
    ELSE 0

INDENT_AMOUNT == 2

\* prefix_for_depth: the number of spaces, and whether "+-- " follows them.
PrefixForDepth(depth) ==
    IF depth <= 0 THEN [spaces |-> 0, connector |-> FALSE]
    ELSE [spaces |-> INDENT_AMOUNT * depth, connector |-> TRUE]

PhantomRowsMissingOnly(by_name, root) ==
    LET up == root.desc.upstream
        depth == BranchDepth(by_name, root.desc.name)
    IN  IF up # NoUpstream /\ up \notin DOMAIN by_name
        THEN << [kind |-> "missing", name |-> up, prefix |-> PrefixForDepth(depth - 1)] >>
        ELSE << >>

\* let mut output_rows = if let Some(up) = &root.desc.upstream { ... }
PhantomRows(by_name, root) ==
    LET up == root.desc.upstream
        depth == BranchDepth(by_name, root.desc.name)
    IN  IF up = NoUpstream THEN << >>
        ELSE IF ContainsOrigin(up)
        THEN << [kind |-> "remote", name |-> up, prefix |-> PrefixForDepth(depth - 1)] >>
        ELSE IF up \notin DOMAIN by_name
        THEN << [kind |-> "missing", name |-> up, prefix |-> PrefixForDepth(depth - 1)] >>
        ELSE << >>

\* output_rows.push(vec![Cell::new(prefix + &root.desc.name), ...])
OwnRow(by_name, root) ==
    [ kind |-> "branch", name |-> root.desc.name,
      prefix |-> PrefixForDepth(BranchDepth(by_name, root.desc.name)) ]

\* format_tree_rooted_at
RECURSIVE FormatTreeRootedAt(_, _)
RECURSIVE FormatDownstream(_, _)
FormatTreeRootedAt(by_name, root) ==
    PhantomRows(by_name, root) \o << OwnRow(by_name, root) >>
        \o FormatDownstream(by_name, root.downstream)

\* for down_name in &root.downstream { if let Some(down) = by_name.get(down_name) { ... } }
FormatDownstream(by_name, downs) ==
    IF downs = << >> THEN << >>
    ELSE (IF Head(downs) \in DOMAIN by_name
          THEN FormatTreeRootedAt(by_name, by_name[Head(downs)])
          ELSE << >>)
         \o FormatDownstream(by_name, Tail(downs))

TreeIdle ==
    /\ listing = << >>
    /\ tpc = "idle"
    /\ branch_downstream_map = << >>
    /\ branches = << >>
    /\ branches_by_name = << >>
    /\ root_branches = << >>
    /\ ridx = 1
    /\ all_rows = << >>

\* The git state of a run of show-tree, which only reads the listing.
GitIdle ==
    /\ head = "base"
    /\ tip = [n \in Names |-> IF n = "base" THEN << "r" >> ELSE NoCommit]
    /\ upstream = [n \in Names |-> NoUpstream]
    /\ dirty = FALSE
    /\ origin = [n \in Names |-> NoCommit]
    /\ pc = "idle"
    /\ op = "none"
    /\ terminal = "none"
    /\ push = FALSE
    /\ branch_cache = << >>
    /\ idx = 1
    /\ fu_upstream = "none"
    /\ commit = NoCommit
    /\ curr = "none"
    /\ curr_upstream = "none"
    /\ arg = "none"
    /\ log = << >>
    /\ pre = [tip |-> tip, upstream |-> upstream, head |-> head]

\* let branch_names = run_git(vec!["branch", "-vv"], false)?...; and the
\* descriptors parse_branch_entry returns for the lines.
InitTree ==
    /\ listing \in Listings
    /\ tpc = "downstream"
    /\ branch_downstream_map = << >>
    /\ branches = << >>
    /\ branches_by_name = << >>
    /\ root_branches = << >>
    /\ ridx = 1
    /\ all_rows = << >>

\* The loop that fills branch_downstream_map.
TreeDownstream ==
    /\ tpc = "downstream"
    /\ branch_downstream_map' = DownstreamMap(listing)
    /\ tpc' = "attach"
    /\ UNCHANGED <<gitVars, purgeVars, parseVars, listing, branches, branches_by_name, root_branches,
                   ridx, all_rows>>

\* The loops that set each branch's downstream and fill branches_by_name.
TreeAttach ==
    /\ tpc = "attach"
    /\ branches' = Attach(listing, branch_downstream_map)
    /\ branches_by_name' = ByName(branches')
    /\ tpc' = "roots"
    /\ UNCHANGED <<gitVars, purgeVars, parseVars, listing, branch_downstream_map, root_branches, ridx,
                   all_rows>>

\* let mut root_branches = branches.into_iter().filter(..).collect(); sort_by_key
TreeRoots ==
    /\ tpc = "roots"
    /\ root_branches' = RootBranches(branches, branches_by_name)
    /\ ridx' = 1
    /\ tpc' = "render"
    /\ UNCHANGED <<gitVars, purgeVars, parseVars, listing, branch_downstream_map, branches,
                   branches_by_name, all_rows>>

\* for br in root_branches { all_rows.append(&mut format_tree_rooted_at(..)?) }
TreeRenderRoot ==
    /\ tpc = "render"
    /\ ridx <= Len(root_branches)
    /\ all_rows' = all_rows \o FormatTreeRootedAt(branches_by_name, root_branches[ridx])
    /\ ridx' = ridx + 1
    /\ UNCHANGED <<gitVars, purgeVars, parseVars, listing, tpc, branch_downstream_map, branches,
                   branches_by_name, root_branches>>

\* The table of all_rows is printed.
TreePrint ==
    /\ tpc = "render"
    /\ ridx > Len(root_branches)
    /\ tpc' = "printed"
    /\ UNCHANGED <<gitVars, purgeVars, parseVars, listing, branch_downstream_map, branches,
                   branches_by_name, root_branches, ridx, all_rows>>

NextTree == TreeDownstream \/ TreeAttach \/ TreeRoots \/ TreeRenderRoot \/ TreePrint

\* ------------------------------------------------- parse_branch_entry
\* A line of git branch -vv is the sequence of its atoms: a space, one of the
\* characters * [ ] : , or a maximal run of other characters ("feat-a",
\* "origin/main", "ahead"). None of the patterns of the parser can match inside
\* such a run. An Option is a sequence of length 0 (None) or 1 (Some).

\* Bound on the spaces git pads a branch name with.
MaxPad == 2

Numerals == {"1", "2"}

\* it.as_str().parse().ok()
NumeralValue == [n \in Numerals |-> IF n = "1" THEN 1 ELSE 2]

StatusTexts ==
    { << "ahead", " ", "1" >>, << "behind", " ", "2" >>,
      << "ahead", " ", "1", ",", " ", "behind", " ", "2" >>, << "gone" >> }

Messages ==
    { << "fix" >>, << "fix", " ", "it" >>, << "[", "WIP", "]", " ", "fix" >>,
      << "[", "WIP", "]" >> }

\* What git branch -vv prints a line from.
EntryFields ==
    { f \in [ current : BOOLEAN, name : { << "main" >>, << "feat-a" >> },
              pad : 1..MaxPad, sha : { << "a1b2c3" >> },
              upstream : { << >>, << << "origin/main" >> >>, << << "main" >> >> },
              status : { << >> } \cup { << t >> : t \in StatusTexts },
              message : Messages ] :
        f.upstream = << >> => f.status = << >> }

Spaces(n) == [i \in 1..n |-> " "]

\* [<upstream>] or [<upstream>: <status>], followed by a space.
Annotation(f) ==
    IF f.upstream = << >> THEN << >>
    ELSE << "[" >> \o f.upstream[1]
         \o (IF f.status = << >> THEN << >> ELSE << ":", " " >> \o f.status[1])
         \o << "]", " " >>

\* The line git branch -vv prints: "* " or two spaces, the name padded, the
\* abbreviated hash, the annotation if the branch tracks one, the subject.
FormatLine(f) ==
    (IF f.current THEN << "*", " " >> ELSE << " ", " " >>)
    \o f.name \o Spaces(f.pad) \o f.sha \o << " " >> \o Annotation(f) \o f.message

\* Lines with fewer than three whitespace-separated tokens.
ShortLines ==
    { << >>, << " ", " ", "main" >>, << "*", " ", "main" >>,
      << " ", " ", "main", " ", "a1b2c3" >>, << " ", " ", "main", " ", "a1b2c3", " " >> }

RECURSIVE TrimStart(_)
TrimStart(s) == IF s # << >> /\ Head(s) = " " THEN TrimStart(Tail(s)) ELSE s

RECURSIVE TrimEnd(_)
TrimEnd(s) ==
    IF s # << >> /\ s[Len(s)] = " " THEN TrimEnd(SubSeq(s, 1, Len(s) - 1)) ELSE s

\* str::trim
Trim(s) == TrimEnd(TrimStart(s))

\* str::trim_start_matches(c): every leading c is removed.
RECURSIVE TrimStartMatches(_, _)
TrimStartMatches(s, c) ==
    IF s # << >> /\ Head(s) = c THEN TrimStartMatches(Tail(s), c) ELSE s

\* The first position of atom a in s, 0 if there is none.
FirstAt(s, a) ==
    IF \E i \in 1..Len(s) : s[i] = a
    THEN CHOOSE i \in 1..Len(s) : s[i] = a /\ \A j \in 1..(i - 1) : s[j] # a
    ELSE 0

\* Regex::new(r"\s+").splitn(s, limit)
RECURSIVE Splitn(_, _)
Splitn(s, limit) ==
    LET i == FirstAt(s, " ") IN
    IF limit <= 1 \/ i = 0 THEN << s >>
    ELSE << SubSeq(s, 1, i - 1) >> \o Splitn(TrimStart(SubSeq(s, i, Len(s))), limit - 1)

\* whitespace.splitn(branch_entry.trim().trim_start_matches('*').trim(), 3)
SplitEntry(entry) == Splitn(Trim(TrimStartMatches(Trim(entry), "*")), 3)

\* Regex::new(r"(?:\[([^\]]*)\] )?(.*)").captures(rest): the bracket group
\* takes part when rest opens with [ and its first ] is followed by a space.
RestExpr(rest) ==
    LET k == FirstAt(rest, "]") IN
    IF rest # << >> /\ rest[1] = "[" /\ k > 0 /\ k < Len(rest) /\ rest[k + 1] = " "
    THEN [group1 |-> << SubSeq(rest, 2, k - 1) >>,
          group2 |-> << SubSeq(rest, k + 2, Len(rest)) >>]
    ELSE [group1 |-> << >>, group2 |-> << rest >>]

\* The first position where ": " starts in s, 0 if there is none.
FirstColonSpace(s) ==
    IF \E i \in 1..(Len(s) - 1) : s[i] = ":" /\ s[i + 1] = " "
    THEN CHOOSE i \in 1..(Len(s) - 1) :
            /\ s[i] = ":" /\ s[i + 1] = " "
            /\ \A j \in 1..(i - 1) : ~(s[j] = ":" /\ s[j + 1] = " ")
    ELSE 0

\* s.as_str().split(": ").collect()
RECURSIVE SplitColonSpace(_)
SplitColonSpace(s) ==
    LET i == FirstColonSpace(s) IN
    IF i = 0 THEN << s >>
    ELSE << SubSeq(s, 1, i - 1) >> \o SplitColonSpace(SubSeq(s, i + 2, Len(s)))

\* Status::parse: (?:ahead (\d+))?(?:, )?(?:behind (\d+))? always matches at
\* the start of s, each optional group taking part when it can.
StatusParse(s) ==
    LET a  == Len(s) >= 3 /\ s[1] = "ahead" /\ s[2] = " " /\ s[3] \in Numerals
        r1 == IF a THEN SubSeq(s, 4, Len(s)) ELSE s
        c  == Len(r1) >= 2 /\ r1[1] = "," /\ r1[2] = " "
        r2 == IF c THEN SubSeq(r1, 3, Len(r1)) ELSE r1
        b  == Len(r2) >= 3 /\ r2[1] = "behind" /\ r2[2] = " " /\ r2[3] \in Numerals
    IN  << [ahead  |-> IF a THEN << NumeralValue[s[3]] >> ELSE << >>,
            behind |-> IF b THEN << NumeralValue[r2[3]] >> ELSE << >>] >>

\* let descriptor = BranchDescriptor { current, name, sha, message, upstream, status }
Descriptor(entry, ps) ==
    LET group == RestExpr(ps[3])
        upstream_and_maybe_status ==
            IF group.group1 = << >> THEN << >>
            ELSE << SplitColonSpace(group.group1[1]) >>
    IN  [current  |-> entry # << >> /\ entry[1] = "*",
         name     |-> ps[1],
         sha      |-> ps[2],
         message  |-> group.group2[1],
         upstream |-> IF upstream_and_maybe_status = << >> THEN << >>
                      ELSE << upstream_and_maybe_status[1][1] >>,
         status   |-> IF upstream_and_maybe_status = << >>
                         \/ Len(upstream_and_maybe_status[1]) < 2
                      THEN << >>
                      ELSE StatusParse(upstream_and_maybe_status[1][2])]

ParseIdle ==
    /\ line = << >>
    /\ built = << >>
    /\ parts = << >>
    /\ descriptor = << >>
    /\ ppc = "idle"

\* parse_branch_entry(branch) on one line of the listing.
InitParse ==
    /\ \/ \E f \in EntryFields : line = FormatLine(f) /\ built = << f >>
       \/ line \in ShortLines /\ built = << >>
    /\ parts = << >>
    /\ descriptor = << >>
    /\ ppc = "split"

\* let parts = ...collect(); if parts.len() != 3 { return Err(parse_error(..)) }
ParseSplit ==
    /\ ppc = "split"
    /\ parts' = SplitEntry(line)
    /\ ppc' = IF Len(parts') # 3 THEN "error" ELSE "rest"
    /\ UNCHANGED <<gitVars, purgeVars, listing, tpc, branch_downstream_map, branches,
                   branches_by_name, root_branches, ridx, all_rows, line, built,
                   descriptor>>

\* let group = rest_expr.captures(rest)...; let descriptor = ...; Ok(descriptor)
ParseRest ==
    /\ ppc = "rest"
    /\ descriptor' = << Descriptor(line, parts) >>
    /\ ppc' = "parsed"
    /\ UNCHANGED <<gitVars, purgeVars, listing, tpc, branch_downstream_map, branches,
                   branches_by_name, root_branches, ridx, all_rows, line, built, parts>>

NextParse == ParseSplit \/ ParseRest

\* ---------------------------------------------------------------- purge
\* A ref below origin/ and a local branch name are the sequences of their
\* path segments: << "release", "old-1" >> is origin/release/old-1, and the
\* local branch release/old-1.
RemoteRefs ==
    { << "release", "old-1" >>, << "release", "old-2" >>, << "feature", "x" >>,
      << "release", "v1", "rc" >> }

LocalNames == { << "release", "old-1" >>, << "release", "old-2" >>, << "release", "v1" >> }

Prefixes == {"release", "feature"}

\* Bound on the number of stale refs git remote prune origin reports.
MaxStale == 2

\* The stale refs, in the order git remote prune origin -n lists them.
StaleListings ==
    { l \in UNION { [1..n -> RemoteRefs] : n \in 0..MaxStale } :
        \A i, j \in 1..Len(l) : l[i] = l[j] => i = j }

\* re = origin/{prefix}/([\w-]+): the line names a ref below origin/<prefix>/.
Matches(pfx, ref) == Len(ref) >= 2 /\ ref[1] = pfx

\* format!("{}/{}", prefix, m.as_str()): the capture ends at the next slash.
Proposed(pfx, ref) == << pfx, ref[2] >>

\* .lines()...map(|s| re.captures(s)).flatten()...collect()
RECURSIVE ProposedBranches(_, _)
ProposedBranches(pfx, refs) ==
    IF refs = << >> THEN << >>
    ELSE (IF Matches(pfx, Head(refs)) THEN << Proposed(pfx, Head(refs)) >> ELSE << >>)
         \o ProposedBranches(pfx, Tail(refs))

ProceedsOnAnyAnswer(a) == a # "error"

\* Confirm::new().with_prompt("Ok?").interact()? is true
Proceeds(a) == a = "yes"

AfterDeleteFailStop(ok) == Next_pc(ok, "pg_delete")

\* if let Err(e) = result { println!("Warning: ignoring error ...") }: the
\* result of delete_branch is matched, never propagated with ?, so the loop goes on.
AfterDelete(ok) == "pg_delete"

PurgeIdle ==
    /\ stale_refs = << >>
    /\ local_set = {}
    /\ prefix = "none"
    /\ no_confirm = FALSE
    /\ purge_list = << >>
    /\ pidx = 1
    /\ answer = "none"

\* Purge { prefix, no_confirm } => purge(&prefix, no_confirm, verbose)
InitPurge ==
    /\ stale_refs \in StaleListings
    /\ local_set \in SUBSET LocalNames
    /\ prefix \in Prefixes
    /\ no_confirm \in BOOLEAN
    /\ purge_list = << >>
    /\ pidx = 1
    /\ answer = "none"
    /\ head = "base"
    /\ tip = [n \in Names |-> IF n = "base" THEN << "r" >> ELSE NoCommit]
    /\ upstream = [n \in Names |-> NoUpstream]
    /\ dirty = FALSE
    /\ origin = [n \in Names |-> NoCommit]
    /\ pc = "pg_list"
    /\ op = "purge"
    /\ terminal = "none"
    /\ push = FALSE
    /\ branch_cache = << >>
    /\ idx = 1
    /\ fu_upstream = "none"
    /\ commit = NoCommit
    /\ curr = "none"
    /\ curr_upstream = "none"
    /\ arg = "none"
    /\ log = << >>
    /\ pre = [local |-> local_set, stale |-> stale_refs]

\* run_git(vec!["remote", "prune", "origin", "-n"], verbose)? ... collect();
\* if branches.is_empty() { return Ok(()) } ... if no_confirm {
PurgeList ==
    /\ pc = "pg_list"
    /\ \E ok \in BOOLEAN :
        /\ log' = Append(log, Entry("remote prune origin -n", "", ok))
        /\ purge_list' = IF ok THEN ProposedBranches(prefix, stale_refs) ELSE purge_list
        /\ pc' = Next_pc(ok, IF purge_list' = << >> THEN "done"
                             ELSE IF no_confirm THEN "pg_delete" ELSE "pg_confirm")
    /\ pidx' = 1
    /\ UNCHANGED <<repoVars, localVars, pre, treeVars, stale_refs, local_set, prefix,
                   no_confirm, answer>>

\* } else if Confirm::new().with_prompt("Ok?").interact()? { ... } else { Cancelling }
PurgeConfirm ==
    /\ pc = "pg_confirm"
    /\ \E a \in {"yes", "no", "error"} :
        /\ answer' = a
        /\ pc' = IF a = "error" THEN "failed"
                 ELSE IF Proceeds(a) THEN "pg_delete" ELSE "done"
    /\ UNCHANGED <<repoVars, localVars, log, pre, treeVars, stale_refs, local_set,
                   prefix, no_confirm, purge_list, pidx>>

\* for branch in branches { let result = delete_branch(&branch, true);
\*   if let Err(e) = result { println!("Warning: ...") } }
\* git branch -D fails when there is no such local branch.
PurgeDelete ==
    /\ pc = "pg_delete"
    /\ pidx <= Len(purge_list)
    /\ LET b == purge_list[pidx] IN
        /\ log' = Append(log, Entry("branch -D", b, b \in local_set))
        /\ local_set' = local_set \ {b}
        /\ pc' = AfterDelete(b \in local_set)
    /\ pidx' = pidx + 1
    /\ UNCHANGED <<repoVars, localVars, pre, treeVars, stale_refs, prefix,
                   no_confirm, purge_list, answer>>

\* run_git(vec!["remote", "prune", "origin"], verbose)?;
PurgePrune ==
    /\ pc = "pg_delete"
    /\ pidx > Len(purge_list)
    /\ \E ok \in BOOLEAN :
        /\ log' = Append(log, Entry("remote prune origin", "", ok))
        /\ stale_refs' = IF ok THEN << >> ELSE stale_refs
        /\ pc' = Next_pc(ok, "done")
    /\ UNCHANGED <<repoVars, localVars, pre, treeVars, local_set, prefix, no_confirm,
                   purge_list, pidx, answer>>

NextPurge == PurgeList \/ PurgeConfirm \/ PurgeDelete \/ PurgePrune

\* ---------------------------------------------------------------- Spec
NextGit ==
    \/ MainFixUp \/ MainUp \/ MainRecFixUp \/ MainCommitBr
    \/ MainRebaseOntoLatest \/ MainResetHardOrigin
    \/ FuLasthash \/ FuSetUpstream \/ FuEnsureClean \/ FuReset \/ FuSubmodules
    \/ FuCherryPick \/ FuSubmodulesEnd
    \/ RecEntry \/ RecUpstream \/ RecClimb \/ RecLoopNext \/ RecLoopUpstream
    \/ RecPush \/ RecLoopEnd
    \/ CbBranch \/ CbEnsureClean \/ CbReset \/ CbCheckout \/ CbSetUpstream
    \/ CbSubmodules
    \/ RhEnsureClean \/ RhFetch \/ RhReset
    \/ RlCheckout \/ RlPull \/ RlCheckoutBack

vars == <<gitVars, treeVars, purgeVars>>

Init == InitGit /\ TreeIdle /\ ParseIdle /\ PurgeIdle

Next == NextGit

Spec == Init /\ [][Next]_vars

InitShowTree == GitIdle /\ InitTree /\ ParseIdle /\ PurgeIdle

SpecTree == InitShowTree /\ [][NextTree]_vars

InitRunPurge == InitPurge /\ TreeIdle /\ ParseIdle

SpecPurge == InitRunPurge /\ [][NextPurge]_vars

InitParseLine == GitIdle /\ TreeIdle /\ InitParse /\ PurgeIdle

SpecParse == InitParseLine /\ [][NextParse]_vars

\* ------------------------------------------------------------- claims
\* The branches fix_upstream was entered on, in order (lasthash is its first call).
RECURSIVE OnOf(_)
OnOf(s) == IF s = << >> THEN << >> ELSE << s[1].on >> \o OnOf(Tail(s))

IsLasthash(e) == e.cmd = "log -n 1"

Reconciled == OnOf(SelectSeq(log, IsLasthash))

\* The upstream chain of branch b at the call, nearest the terminal first:
\* << b_1, ..., b_n = b >> with b_1's upstream the terminal.
RECURSIVE PreChain(_, _)
PreChain(b, fuel) ==
    IF b = terminal \/ b = NoUpstream \/ fuel = 0 THEN << >>
    ELSE Append(PreChain(pre.upstream[b], fuel - 1), b)

\* C1: chain reconcile enters fix_upstream on the climbed branches nearest
\* the terminal first and the starting branch last, each exactly once: at any
\* time the branches reconciled so far are a prefix of b_1, ..., b_n, and on
\* success they are all of them.
C1_ReplayOrder ==
    op = "rec" /\ pc \notin {"main", "rec_entry", "rec_upstream", "rec_checkout"} =>
        /\ Reconciled # << >> =>
              IsPrefix(Reconciled, PreChain(pre.head, Cardinality(Names)))
        /\ pc = "done" => Reconciled = PreChain(pre.head, Cardinality(Names))

C1_Witness ==
    /\ op = "rec" /\ pc = "done" /\ terminal = "base"
    /\ pre.head = "leaf"
    /\ Reconciled = << "mid", "leaf" >>

\* A branch that held exactly one commit beyond its upstream at the call.
OneCommitBeyond(b) ==
    LET t == pre.tip[b]
        u == pre.tip[pre.upstream[b]]
    IN  /\ Len(t) > 1
        /\ IsPrefix(Front(t), u)
        /\ t[Len(t)] \notin Range(u)

\* C2: after a successful chain reconcile over a stack of one-commit branches,
\* every climbed branch's tip is its pre-call tip commit replayed directly on
\* the final tip of its upstream (which for all but the first is itself a
\* replayed tip, not the tip the upstream had at the call).
C2_StackReplayed ==
    ( /\ op = "rec" /\ pc = "done"
      /\ \A i \in 1..Len(branch_cache) : OneCommitBeyond(branch_cache[i]) ) =>
        \A i \in 1..Len(branch_cache) :
            LET b == branch_cache[i] IN
            /\ upstream[b] = pre.upstream[b]
            /\ tip[b] = Append(tip[upstream[b]], pre.tip[b][Len(pre.tip[b])])

C2_Witness ==
    /\ op = "rec" /\ pc = "done" /\ terminal = "base"
    /\ branch_cache = << "mid", "leaf" >>
    /\ OneCommitBeyond("mid") /\ OneCommitBeyond("leaf")
    /\ tip["base"] = << "r", "b" >>
    /\ tip["mid"] = << "r", "b", "m" >>
    /\ tip["leaf"] = << "r", "b", "m", "l" >>
    /\ tip["leaf"] # Append(pre.tip["mid"], "l")

ResetCommands == {"reset --hard"}
TreeNeutralCommands == {"fetch origin"}

\* C3: no hard reset is issued on a dirty tree: every reset --hard in the log
\* was issued on a clean tree, follows a successful status check with only
\* tree-neutral commands in between, and a failed status check is the last
\* command of the run.
C3_NoResetOnDirtyTree ==
    \A i \in 1..Len(log) :
        /\ log[i].cmd \in ResetCommands =>
            /\ ~log[i].dirty
            /\ \E j \in 1..(i - 1) :
                /\ log[j].cmd = "status" /\ log[j].ok
                /\ \A k \in (j + 1)..(i - 1) : log[k].cmd \in TreeNeutralCommands
        /\ (log[i].cmd = "status" /\ ~log[i].ok) => (i = Len(log) /\ pc = "failed")

C3_Witness ==
    /\ op = "rec" /\ pc = "failed" /\ pre.head = "leaf"
    /\ branch_cache = << "mid", "leaf" >>
    /\ dirty
    /\ log[Len(log)].cmd = "status"
    /\ \A i \in 1..Len(log) : log[i].cmd \notin ResetCommands

\* The states in which fix_upstream has just returned Ok to its caller.
FixUpstreamReturned ==
    /\ commit # NoCommit
    /\ pc \in {"done", "rec_push", "rec_loop"}

\* C4: after a successful fix_upstream(u) the current branch tracks u and its
\* history is u's tip plus one commit, the replay of the branch's pre-call tip
\* commit; whatever else the branch held beyond u is gone.
C4_SingleReconcile ==
    FixUpstreamReturned =>
        /\ upstream[head] = fu_upstream
        /\ tip[head] = Append(tip[fu_upstream], commit[Len(commit)])
        /\ Cardinality(Range(tip[head]) \ Range(tip[fu_upstream])) = 1
        /\ op \in {"up", "fix_up"} => commit = pre.tip[head]

C4_Witness ==
    /\ op = "up" /\ pc = "done" /\ head = "leaf" /\ fu_upstream = "base"
    /\ pre.tip["leaf"] = << "r", "m", "n", "l" >>
    /\ Cardinality(Range(pre.tip["leaf"]) \ Range(pre.tip["base"])) > 1
    /\ tip["leaf"] = Append(tip["base"], "l")

\* C5: chain reconcile is fail-stop: a failed command is the last command of
\* the run; when the run fails while processing work-list branch b_i the
\* branches after b_i keep their pre-call tips and are not pushed, the
\* branches before it keep their replayed tips, and after a failed cherry-pick
\* b_i is left reset onto its upstream.
C5_FailStop ==
    op = "rec" =>
        /\ \A i \in 1..Len(log) : ~log[i].ok => (i = Len(log) /\ pc = "failed")
        /\ pc = "failed" => ~log[Len(log)].ok
        /\ (pc = "failed" /\ idx > 1) =>
            /\ \A j \in idx..Len(branch_cache) :
                /\ tip[branch_cache[j]] = pre.tip[branch_cache[j]]
                /\ origin[branch_cache[j]] = NoCommit
            /\ \A j \in 1..(idx - 2) :
                LET b == branch_cache[j] IN
                tip[b] = Append(tip[upstream[b]], pre.tip[b][Len(pre.tip[b])])
            /\ log[Len(log)].cmd = "cherry-pick" =>
                /\ head = branch_cache[idx - 1]
                /\ tip[head] = tip[upstream[head]]

C5_Witness ==
    /\ op = "rec" /\ pc = "failed"
    /\ branch_cache = << "mid", "leaf" >>
    /\ log[Len(log)].cmd = "cherry-pick"
    /\ head = "mid"
    /\ tip["mid"] = tip["base"]
    /\ tip["leaf"] = pre.tip["leaf"]

\* ------------------------------------------------ claims about the tree
Keys == DOMAIN branches_by_name

\* One upstream link from x, NoUpstream when there is none to follow.
UpOf(x) ==
    IF x \in Keys THEN branches_by_name[x].desc.upstream ELSE NoUpstream

RECURSIVE Ancestor(_, _)
Ancestor(n, i) == IF i = 0 THEN n ELSE UpOf(Ancestor(n, i - 1))

Acyclic == \A n \in Keys : \A i \in 1..Cardinality(Keys) : Ancestor(n, i) # n

\* The chain stops at x: x has no upstream, or is not a key of the graph.
ChainEndsAt(x) == x \notin Keys \/ branches_by_name[x].desc.upstream = NoUpstream

\* The number of upstream links followed from n until the chain stops.
LinksToEnd(n) ==
    CHOOSE k \in 0..(Cardinality(Keys) + 1) :
        /\ ChainEndsAt(Ancestor(n, k))
        /\ \A j \in 0..(k - 1) : ~ChainEndsAt(Ancestor(n, j))

IsRootName(n) ==
    n \in Keys /\ (UpOf(n) = NoUpstream \/ UpOf(n) \notin Keys)

\* The number of upstream links followed from n until a root is reached.
LinksToRoot(n) ==
    CHOOSE k \in 0..Cardinality(Keys) :
        /\ IsRootName(Ancestor(n, k))
        /\ \A j \in 0..(k - 1) : ~IsRootName(Ancestor(n, j))

PhantomNodes ==
    { n \in Keys : UpOf(n) # NoUpstream
                   /\ (UpOf(n) \notin Keys \/ ContainsOrigin(UpOf(n))) }

RowsOf(kinds, n) ==
    { i \in 1..Len(all_rows) : all_rows[i].kind \in kinds /\ all_rows[i].name = n }

PhantomRowsBefore(n) ==
    { i \in 1..Len(all_rows) :
        /\ all_rows[i].kind \in {"remote", "missing"}
        /\ i < Len(all_rows)
        /\ all_rows[i + 1].kind = "branch" /\ all_rows[i + 1].name = n }

RowCountIsNodesPlusPhantoms ==
    /\ Len(all_rows) = Cardinality(Keys) + Cardinality(PhantomNodes)
    /\ \A n \in Keys :
        /\ Cardinality(RowsOf({"branch"}, n)) = 1
        /\ Cardinality(PhantomRowsBefore(n)) = IF n \in PhantomNodes THEN 1 ELSE 0

\* C7 as stated: for every listing with unique names the rendered table has
\* one row per node, none twice, and one phantom row per node whose upstream
\* is absent or remote-style.
C7_RowCountAnyGraph == tpc = "printed" => RowCountIsNodesPlusPhantoms

\* C7 amended: the same for every listing whose upstream links form no cycle.
C7_RowCount == (tpc = "printed" /\ Acyclic) => RowCountIsNodesPlusPhantoms

C7_Witness ==
    /\ tpc = "printed" /\ Acyclic
    /\ Cardinality(Keys) = 3
    /\ \E n \in Keys : UpOf(n) = "gone"
    /\ \E n \in Keys : UpOf(n) \in Keys /\ ContainsOrigin(UpOf(n))
    /\ Len(all_rows) = 5

ChildrenInOrder(descs, a) ==
    LET TracksA(d) == d.upstream = a
        kids == SelectSeq(descs, TracksA)
    IN  [ i \in 1..Len(kids) |-> kids[i].name ]

\* C8: in the graph print_branch_tree builds, for keys a and b, b is in a's
\* downstream list exactly when b's upstream is a, and then once; the roots
\* are exactly the nodes with no upstream or with an upstream that is no key.
C8_DownstreamInvertsUpstream ==
    tpc = "printed" =>
        /\ \A a, b \in Keys :
            LET down == branches_by_name[a].downstream IN
            /\ b \in Range(down) <=> UpOf(b) = a
            /\ Cardinality({i \in 1..Len(down) : down[i] = b}) <= 1
        /\ {root_branches[i].desc.name : i \in 1..Len(root_branches)}
             = {n \in Keys : UpOf(n) = NoUpstream \/ UpOf(n) \notin Keys}
        /\ \A i, j \in 1..Len(root_branches) :
             root_branches[i].desc.name = root_branches[j].desc.name => i = j

C8_Witness ==
    /\ tpc = "printed"
    /\ listing = << [name |-> "feat-b", upstream |-> "feat-a"],
                    [name |-> "feat-a", upstream |-> "main"],
                    [name |-> "main", upstream |-> NoUpstream] >>
    /\ Len(root_branches) = 1 /\ root_branches[1].desc.name = "main"
    /\ branches_by_name["main"].downstream = << "feat-a" >>
    /\ branches_by_name["feat-a"].downstream = << "feat-b" >>
    /\ BranchDepth(branches_by_name, "feat-b") = 2

\* The branches, with their downstream lists, print_branch_tree builds from descs.
BranchesOf(descs) == Attach(descs, DownstreamMap(descs))

Permuted(descs) ==
    { [i \in 1..Len(descs) |-> descs[f[i]]] : f \in Permutations(1..Len(descs)) }

NamesOf(brs) == {brs[i].desc.name : i \in 1..Len(brs)}

\* C9: every permutation of the listing yields the same set of roots and, for
\* every node, the same set of downstream names as the graph that was built;
\* each downstream list is in the order its children have in the input.
C9_OrderIndependent ==
    tpc = "printed" =>
        \A p \in Permuted(listing) :
            LET brs == BranchesOf(p)
                g == ByName(brs)
            IN  /\ NamesOf(RootBranches(brs, g)) = NamesOf(root_branches)
                /\ DOMAIN g = Keys
                /\ \A n \in Keys :
                    /\ Range(g[n].downstream) = Range(branches_by_name[n].downstream)
                    /\ g[n].downstream = ChildrenInOrder(p, n)

C9_Witness ==
    /\ tpc = "printed"
    /\ "main" \in Keys
    /\ Len(branches_by_name["main"].downstream) = 2
    /\ \E p \in Permuted(listing) :
        LET g == ByName(BranchesOf(p)) IN
        /\ g["main"].downstream # branches_by_name["main"].downstream
        /\ Range(g["main"].downstream) = Range(branches_by_name["main"].downstream)

\* ---------------------------------------------------- claims about purge
MutatingPurgeCommands == {"branch -D", "remote prune origin"}

\* C10: when purge proposes at least one branch, the bypass flag is not set
\* and the user declines, no branch is deleted, the remote is not pruned for
\* real, and the local branches and stale refs are what they were.
C10_DeclinedPurgeChangesNothing ==
    (op = "purge" /\ purge_list # << >> /\ ~no_confirm /\ answer = "no") =>
        /\ pc = "done"
        /\ local_set = pre.local
        /\ stale_refs = pre.stale
        /\ \A i \in 1..Len(log) : log[i].cmd \notin MutatingPurgeCommands

C10_Witness ==
    /\ op = "purge" /\ pc = "done" /\ answer = "no" /\ ~no_confirm
    /\ prefix = "release"
    /\ stale_refs = << << "release", "old-1" >>, << "release", "old-2" >> >>
    /\ purge_list = << << "release", "old-1" >>, << "release", "old-2" >> >>
    /\ {<< "release", "old-1" >>, << "release", "old-2" >>} \subseteq local_set
\* ---- C11
DeleteAttempts == SelectSeq(log, LAMBDA e : e.cmd = "branch -D")

PurgeProceeds == no_confirm \/ answer = "yes"

\* C11: when purge proceeds, git branch -D is attempted on every proposed
\* branch in listing order whether or not earlier attempts failed: while the
\* batch runs the attempts made are the first pidx - 1 proposed branches, once
\* purge has returned they are all of them, the command after the last attempt
\* is the final remote prune, and purge fails only if that prune fails.
C11_DeletionBatchTolerant ==
    (op = "purge" /\ PurgeProceeds /\ pc \in {"pg_delete", "done", "failed"}
     /\ purge_list # << >>) =>
        LET att == DeleteAttempts IN
        /\ pc = "pg_delete" =>
              /\ Len(att) = pidx - 1
              /\ \A i \in 1..Len(att) : att[i].arg = purge_list[i]
        /\ pc \in {"done", "failed"} =>
              /\ Len(att) = Len(purge_list)
              /\ \A i \in 1..Len(att) : att[i].arg = purge_list[i]
              /\ log[Len(log)].cmd = "remote prune origin"
              /\ log[Len(log) - 1].cmd = "branch -D"
              /\ (pc = "failed") = ~log[Len(log)].ok

\* The first of two deletions failed, the second was still attempted, the
\* final prune ran and purge returned Ok.
C11_Witness ==
    /\ op = "purge" /\ pc = "done" /\ PurgeProceeds
    /\ Len(purge_list) = 2
    /\ Len(DeleteAttempts) = 2
    /\ ~DeleteAttempts[1].ok
    /\ DeleteAttempts[2].ok
    /\ log[Len(log)].cmd = "remote prune origin"

\* ---- C12
\* The number of whitespace-separated tokens of a line.
RECURSIVE TokenCount(_)
TokenCount(s) ==
    LET t == TrimStart(s)
        i == FirstAt(t, " ")
    IN  IF t = << >> THEN 0
        ELSE IF i = 0 THEN 1
        ELSE 1 + TokenCount(SubSeq(t, i, Len(t)))

\* C12: parse_branch_entry succeeds on every line printed from a name, a hash,
\* an optional bracketed annotation and a message, and returns the name, hash,
\* upstream (None without annotation) and message the line was printed from,
\* a message that opens with a bracketed word included; it fails on every line
\* with fewer than three whitespace-separated tokens.
C12_ParseRoundTrips ==
    /\ built # << >> => ppc # "error"
    /\ (built # << >> /\ ppc = "parsed") =>
          /\ descriptor[1].name = built[1].name
          /\ descriptor[1].sha = built[1].sha
          /\ descriptor[1].upstream = built[1].upstream
          /\ descriptor[1].message = built[1].message
    /\ (TokenCount(line) < 3 /\ ppc \notin {"idle", "split"}) => ppc = "error"

\* A branch without upstream whose subject is "[WIP] fix": the bracketed word
\* comes back as the upstream and the message loses it.
C12_Witness ==
    /\ ppc = "parsed"
    /\ built # << >>
    /\ built[1].upstream = << >>
    /\ built[1].message = << "[", "WIP", "]", " ", "fix" >>
    /\ descriptor[1].upstream = << << "WIP" >> >>
    /\ descriptor[1].message = << "fix" >>

\* ---- C13
\* The branch n upstream links above the starting branch, at the call.
RECURSIVE Hop(_)
Hop(n) ==
    IF n = 0 THEN pre.head
    ELSE IF Hop(n - 1) = NoUpstream THEN NoUpstream
    ELSE pre.upstream[Hop(n - 1)]

Horizon == Cardinality(Names)

\* The links reach the terminal after n steps, and not before.
ReachesTerminalAt(n) == Hop(n) = terminal /\ \A m \in 0..(n - 1) : Hop(m) # terminal

\* The links reach a branch with no upstream after n steps, the terminal not
\* being among the branches passed.
ReachesRootAt(n) ==
    /\ Hop(n) # NoUpstream
    /\ pre.upstream[Hop(n)] = NoUpstream
    /\ \A m \in 0..n : Hop(m) # terminal

ChainReachesTerminal == \E n \in 0..Horizon : ReachesTerminalAt(n)

ChainReachesRoot == \E n \in 0..Horizon : ReachesRootAt(n)

\* The links neither reach the terminal nor end: they run into a cycle.
ChainCycles == ~ChainReachesTerminal /\ ~ChainReachesRoot

\* rec_fix_up has found the current branch equal to the terminal.
ReplayBegun == \E i \in 1..Len(log) : log[i].cmd = "rev-parse HEAD" /\ log[i].on = terminal

ClimbPcs == {"rec_entry", "rec_upstream", "rec_checkout"}

CheckoutCommands == {"checkout", "submodule init", "submodule update"}

\* C13 as stated: the climb ends only at the terminal (replay begins) or at a
\* branch without upstream (get_upstream fails), and on a cycle that does not
\* include the terminal it never ends.
C13_ClimbEndsOnlyAtChainEnd ==
    op = "rec" =>
        /\ ReplayBegun => ChainReachesTerminal
        /\ (pc = "failed" /\ ~ReplayBegun) =>
              /\ ChainReachesRoot
              /\ log[Len(log)].cmd = "rev-parse @{u}"
        /\ ChainCycles => (~ReplayBegun /\ pc \notin {"failed", "done"})

\* C13, amended: the climb follows the upstream links of the call one checkout
\* at a time. Replay begins exactly on a chain that reaches the terminal, after
\* as many checkouts as there are links; the climb fails either at a branch
\* without upstream reached over the links, or at a checkout (git checkout or
\* its submodule update) that fails; on a cycle that does not include the
\* terminal it never reaches replay and never succeeds, it can only end by a
\* failed checkout, and only such a climb is as long as MaxClimb.
C13_Climb ==
    op = "rec" =>
        /\ pc \notin (ClimbPcs \cup {"failed"}) => ReplayBegun
        /\ ReplayBegun =>
              \E n \in 0..Horizon : ReachesTerminalAt(n) /\ Len(branch_cache) = n
        /\ (pc \in ClimbPcs /\ ~ReplayBegun) =>
              /\ head = Hop(Len(branch_cache))
              /\ \A m \in 0..(Len(branch_cache) - 1) :
                    Hop(m) # terminal /\ pre.upstream[Hop(m)] # NoUpstream
        /\ (pc = "failed" /\ ~ReplayBegun) =>
              LET e == log[Len(log)] IN
              /\ ~e.ok
              /\ e.cmd \in {"rev-parse @{u}"} \cup CheckoutCommands
              /\ e.cmd = "rev-parse @{u}" =>
                    /\ ReachesRootAt(Len(branch_cache))
                    /\ head = Hop(Len(branch_cache))
        /\ ChainCycles =>
              /\ ~ReplayBegun
              /\ pc # "done"
              /\ pc = "failed" => log[Len(log)].cmd \in CheckoutCommands
        /\ (pc = "rec_checkout" /\ Len(branch_cache) = MaxClimb) => ChainCycles

\* base and mid track each other, the terminal is leaf: the climb is back on
\* base after two checkouts and about to check out mid again.
C13_Witness ==
    /\ op = "rec" /\ pc = "rec_checkout"
    /\ terminal = "leaf"
    /\ pre.head = "base"
    /\ pre.upstream["base"] = "mid" /\ pre.upstream["mid"] = "base"
    /\ branch_cache = << "mid", "base" >>
    /\ head = "base"
    /\ curr_upstream = "mid"

\* ---- C14
PushAt(i) == log[i].cmd = "push -f origin"

\* The run_git calls of a fix_upstream that returns Ok, in order.
FixUpstreamCommands ==
    << "log -n 1", "branch --set-upstream-to", "status", "reset --hard",
       "submodule init", "submodule update", "cherry-pick", "submodule init",
       "submodule update" >>

\* The calls that end just before position i are a whole successful
\* fix_upstream on branch b.
ReconciledBefore(i, b) ==
    LET n == Len(FixUpstreamCommands) IN
    /\ i > n
    /\ \A k \in 1..n :
          LET e == log[i - n - 1 + k] IN
          e.cmd = FixUpstreamCommands[k] /\ e.ok /\ e.on = b

\* C14: in chain reconcile every push -f origin is of the checked-out
\* work-list branch under its own name, never of the terminal, comes right
\* after that branch's own successful fix_upstream and before the checkout of
\* the next branch, and happens once per branch; with push enabled every
\* successful fix_upstream is followed by that push; a branch whose reconcile
\* failed has no remote copy; with push disabled there is no push at all.
C14_PushAfterOwnReconcile ==
    op = "rec" =>
        /\ ~push =>
              /\ \A i \in 1..Len(log) : ~PushAt(i)
              /\ \A b \in Names : origin[b] = NoCommit
        /\ \A i \in 1..Len(log) : PushAt(i) =>
              /\ push
              /\ log[i].arg = log[i].on
              /\ log[i].arg # terminal
              /\ log[i].arg \in Range(branch_cache)
              /\ log[i - 1].cmd = "rev-parse HEAD"
              /\ ReconciledBefore(i - 1, log[i].arg)
              /\ i < Len(log) =>
                    /\ log[i].ok
                    /\ log[i + 1].cmd = "checkout"
                    /\ log[i + 1].arg # log[i].arg
              /\ \A j \in 1..Len(log) : (PushAt(j) /\ log[j].arg = log[i].arg) => j = i
        /\ push =>
              \A k \in 1..Len(log) :
                  (log[k].cmd = "cherry-pick" /\ Len(log) > k + 2) =>
                      /\ PushAt(k + 4)
                      /\ log[k + 4].arg = log[k].on
        /\ \A b \in Names : origin[b] # NoCommit =>
              /\ origin[b] = tip[b]
              /\ \E i \in 1..Len(log) : PushAt(i) /\ log[i].ok /\ log[i].arg = b
        /\ (pc = "failed" /\ ~PushAt(Len(log)) /\ log[Len(log)].cmd # "checkout"
            /\ ReplayBegun) =>
              origin[head] = NoCommit
        /\ (pc = "done" /\ push) =>
              \A b \in Range(branch_cache) : origin[b] = tip[b]

\* mid was reconciled and pushed, leaf was checked out next and its
\* cherry-pick failed: origin/mid is mid's new tip, leaf has no remote copy.
C14_Witness ==
    /\ op = "rec" /\ push /\ pc = "failed" /\ terminal = "base"
    /\ branch_cache = << "mid", "leaf" >>
    /\ log[Len(log)].cmd = "cherry-pick"
    /\ head = "leaf"
    /\ origin["mid"] = tip["mid"]
    /\ origin["leaf"] = NoCommit
    /\ origin["base"] = NoCommit
    /\ \E i \in 1..Len(log) :
          PushAt(i) /\ log[i].arg = "mid" /\ log[i + 1].cmd = "checkout"

\* ---- C15
HasRow(n) == RowsOf({"branch"}, n) # {}

RowIndex(n) == CHOOSE i \in RowsOf({"branch"}, n) : TRUE

\* a is n, or an ancestor of n over the upstream links of the graph.
IsUnder(n, a) == \E k \in 0..Cardinality(Keys) : Ancestor(n, k) = a

\* C15: in the printed rows the roots stand in ascending name order; the row
\* of a node that tracks a key comes after that key's row, with only rows of
\* that key's subtree in between (pre-order); every phantom row is directly
\* followed by the row of the node whose upstream it names, and every node
\* that has a phantom has it directly before its own row; the children of a
\* node stand in the order of the listing.
C15_RowOrder ==
    tpc = "printed" =>
        /\ \A i, j \in 1..Len(root_branches) : i < j =>
              LET a == root_branches[i].desc.name
                  b == root_branches[j].desc.name
              IN  /\ Rank(a) < Rank(b)
                  /\ HasRow(a) /\ HasRow(b)
                  /\ RowIndex(a) < RowIndex(b)
        /\ \A n \in Keys : (HasRow(n) /\ UpOf(n) \in Keys) =>
              /\ HasRow(UpOf(n))
              /\ RowIndex(UpOf(n)) < RowIndex(n)
              /\ \A i \in (RowIndex(UpOf(n)) + 1)..(RowIndex(n) - 1) :
                    all_rows[i].kind = "branch" => IsUnder(all_rows[i].name, UpOf(n))
        /\ \A i \in 1..Len(all_rows) : all_rows[i].kind \in {"remote", "missing"} =>
              /\ i < Len(all_rows)
              /\ all_rows[i + 1].kind = "branch"
              /\ UpOf(all_rows[i + 1].name) = all_rows[i].name
        /\ \A n \in PhantomNodes : HasRow(n) =>
              /\ RowIndex(n) > 1
              /\ all_rows[RowIndex(n) - 1].kind \in {"remote", "missing"}
              /\ all_rows[RowIndex(n) - 1].name = UpOf(n)
        /\ \A a \in Keys :
              LET kids == ChildrenInOrder(listing, a) IN
              \A i, j \in 1..Len(kids) : (i < j /\ HasRow(kids[i]) /\ HasRow(kids[j])) =>
                  RowIndex(kids[i]) < RowIndex(kids[j])

\* Listed as origin-fix, feat-b, feat-a with feat-b and feat-a both tracking
\* origin-fix, which tracks origin/main: the phantom origin/main row, the
\* root, then each child behind its own phantom row, feat-b before feat-a.
C15_Witness ==
    /\ tpc = "printed"
    /\ Len(listing) = 3
    /\ listing[1].name = "origin-fix" /\ listing[1].upstream = "origin/main"
    /\ listing[2].name = "feat-b" /\ listing[2].upstream = "origin-fix"
    /\ listing[3].name = "feat-a" /\ listing[3].upstream = "origin-fix"
    /\ Len(all_rows) = 6
    /\ all_rows[1].kind = "remote" /\ all_rows[2].name = "origin-fix"
    /\ all_rows[3].kind = "remote" /\ all_rows[4].name = "feat-b"
    /\ all_rows[5].kind = "remote" /\ all_rows[6].name = "feat-a"

\* ---- C16
\* C16: after a successful commit_branch(name) from branch P whose tip is c:
\* the tree was clean, name is a new branch at c, P is at c's parent (P's tip
\* plus c's last commit is c), name is checked out and tracks P; no other
\* branch moved and no other tracking changed.
C16_CommitBranch ==
    (op = "commit_br" /\ pc = "done") =>
        LET P == pre.head
            c == pre.tip[P]
        IN  /\ ~log[1].dirty
            /\ pre.tip[arg] = NoCommit
            /\ arg # P
            /\ tip[arg] = c
            /\ Len(c) > 1
            /\ Append(tip[P], c[Len(c)]) = c
            /\ head = arg
            /\ upstream[arg] = P
            /\ \A b \in Names \ {arg, P} : tip[b] = pre.tip[b]
            /\ \A b \in Names \ {arg} : upstream[b] = pre.upstream[b]

\* commit-br topic on leaf at r-m-l: topic is at r-m-l and checked out,
\* leaf is back at r-m, topic tracks leaf.
C16_Witness ==
    /\ op = "commit_br" /\ pc = "done" /\ arg = "topic"
    /\ pre.head = "leaf"
    /\ pre.tip["leaf"] = << "r", "m", "l" >>
    /\ tip["topic"] = << "r", "m", "l" >>
    /\ tip["leaf"] = << "r", "m" >>
    /\ head = "topic"
    /\ upstream["topic"] = "leaf"

\* ---- C17
\* C17: until rec_fix_up finds the current branch equal to the terminal, the
\* run has changed nothing but the checked-out branch: tips, tracking, remote
\* copies and the state of the tree are those of the call, and HEAD is the
\* branch reached over as many upstream links as there were checkouts. When
\* the climb fails on a branch without upstream, HEAD is that branch and, if
\* anything was climbed, not the branch the command started on.
C17_ClimbOnlyMovesHead ==
    (op = "rec" /\ ~ReplayBegun) =>
        /\ tip = pre.tip
        /\ upstream = pre.upstream
        /\ \A b \in Names : origin[b] = NoCommit
        /\ \A i \in 1..Len(log) : log[i].dirty = dirty
        /\ \A i \in 1..Len(log) :
              log[i].cmd \in {"rev-parse HEAD", "rev-parse @{u}"} \cup CheckoutCommands
        /\ head = Hop(Len(branch_cache) +
                      (IF pc = "failed" /\ log[Len(log)].cmd \in {"submodule init", "submodule update"}
                       THEN 1 ELSE 0))
        /\ (pc = "failed" /\ log[Len(log)].cmd = "rev-parse @{u}") =>
              /\ pre.upstream[head] = NoUpstream
              /\ branch_cache # << >> =>
                    /\ head # pre.head
                    /\ branch_cache[Len(branch_cache)] = pre.head
                    /\ \E i \in 1..Len(log) :
                          /\ log[i].cmd = "checkout" /\ log[i].arg = head
                          /\ \A j \in (i + 1)..Len(log) : log[j].cmd # "checkout"

\* rec-fix-up from leaf, which tracks mid, which tracks nothing, with a
\* terminal that is never met: get_upstream fails on mid, mid stays checked
\* out, every tip is as it was.
C17_Witness ==
    /\ op = "rec" /\ pc = "failed" /\ ~ReplayBegun
    /\ pre.head = "leaf"
    /\ pre.upstream["leaf"] = "mid" /\ pre.upstream["mid"] = NoUpstream
    /\ terminal = "base"
    /\ log[Len(log)].cmd = "rev-parse @{u}"
    /\ head = "mid"
    /\ branch_cache = << "leaf" >>
    /\ tip = pre.tip

\* ---- C18
\* The branches on the upstream chain of the call from the starting branch up
\* to, and without, the terminal.
OnChain == Range(PreChain(pre.head, Cardinality(Names)))

\* C18: chain reconcile leaves the terminal's tip and tracking alone, and
\* every branch that is not on the upstream chain between the starting branch
\* and the terminal keeps its tip, its tracking and its remote copy. Started
\* on the terminal itself it has an empty work list, issues get_curr_branch
\* and nothing else, changes nothing and does not fail.
C18_OnlyClimbedBranchesChange ==
    op = "rec" =>
        /\ terminal \notin OnChain
        /\ Range(branch_cache) \subseteq OnChain \/ ~ReplayBegun
        /\ tip[terminal] = pre.tip[terminal]
        /\ upstream[terminal] = pre.upstream[terminal]
        /\ \A b \in Names \ OnChain :
              /\ tip[b] = pre.tip[b]
              /\ upstream[b] = pre.upstream[b]
              /\ origin[b] = NoCommit
        /\ pre.head = terminal =>
              /\ branch_cache = << >>
              /\ pc \in {"rec_entry", "rec_loop", "done"}
              /\ \A i \in 1..Len(log) : i = 1 /\ log[i].cmd = "rev-parse HEAD"
              /\ head = pre.head
              /\ tip = pre.tip
              /\ upstream = pre.upstream
              /\ \A b \in Names : origin[b] = NoCommit

\* rec-fix-up base from mid, with leaf tracking mid and base ahead of mid's
\* fork point: mid is replayed on base, base and leaf are where they were.
C18_Witness ==
    /\ op = "rec" /\ pc = "done" /\ terminal = "base"
    /\ pre.head = "mid"
    /\ pre.upstream["mid"] = "base" /\ pre.upstream["leaf"] = "mid"
    /\ pre.tip["base"] = << "r", "b" >>
    /\ tip["mid"] # pre.tip["mid"]
    /\ tip["base"] = pre.tip["base"]
    /\ tip["leaf"] = pre.tip["leaf"]
    /\ upstream["leaf"] = "mid"

\* ---- C19
\* fix_upstream has just failed at ensure_clean: lasthash, set-upstream-to
\* and the failing status are the last three calls.
FailedAtCleanCheck ==
    /\ pc = "failed"
    /\ Len(log) >= 3
    /\ log[Len(log)].cmd = "status"
    /\ log[Len(log) - 1].cmd = "branch --set-upstream-to"
    /\ log[Len(log) - 2].cmd = "log -n 1"

\* The failing fix_upstream left the tip of the branch and the dirty tree as
\* they were, and touched no other branch.
TipAndTreeKept ==
    /\ dirty /\ log[Len(log) - 2].dirty
    /\ head = log[Len(log) - 2].on
    /\ tip[head] = commit
    /\ op \in {"up", "fix_up"} => tip = pre.tip
    /\ \A b \in Names \ {head} : upstream[b] = pre.upstream[b]

\* C19 as stated: a fix_upstream(u) that fails on a dirty tree leaves tip and
\* tree unchanged and the branch tracking u.
C19_DirtyFailureTracksTarget ==
    FailedAtCleanCheck => (TipAndTreeKept /\ upstream[head] = fu_upstream)

\* C19, amended: a fix_upstream(u) that fails on a dirty tree leaves tip and
\* tree unchanged; the branch already tracks u, unless u is the branch
\* itself, which git does not set as its own upstream: then the tracking is
\* as it was.
C19_DirtyFailureKeepsNewUpstream ==
    FailedAtCleanCheck =>
        /\ TipAndTreeKept
        /\ upstream[head] = IF fu_upstream = head THEN pre.upstream[head] ELSE fu_upstream

\* up base on leaf, which tracked mid, with a dirty tree: the run failed at
\* the clean check, leaf is where it was and now tracks base.
C19_Witness ==
    /\ FailedAtCleanCheck
    /\ op = "up" /\ head = "leaf" /\ fu_upstream = "base"
    /\ pre.upstream["leaf"] = "mid"
    /\ upstream["leaf"] = "base"
    /\ tip = pre.tip
    /\ dirty

====
